---------------------------- MODULE Spec2Model ----------------------------
(***************************************************************************)
(* BufferedFilesystem (relay-compiler/runner/BufferedFilesystem.js): a     *)
(* filesystem wrapper that buffers file writes and deletes in a Map until  *)
(* commit() applies them to the real filesystem and reports the added and  *)
(* removed paths to a source-control hook.                                 *)
(*                                                                         *)
(* One instance of the class is modelled together with the node `fs`       *)
(* module it calls.  The real filesystem is shared with other processes,   *)
(* so an environment action may change a file at any time.                 *)
(***************************************************************************)
EXTENDS Integers, Sequences, FiniteSets, TLC

(***************************************************************************)
(* Bounds and input sets.                                                  *)
(***************************************************************************)
MaxExt == 1                       \* external changes of the disk per run

Paths == {"a.out", "b.out"}                \* file paths handed to the api
DirPaths == {"gen"}                        \* directory paths (mkdir/stat)
Contents == {"", "X"}                      \* file contents, "" included

Null == "<null>"          \* the JS value null (Map value of a staged delete)
Absent == "<absent>"      \* disk state of a path that does not exist
NoCall == "<nocall>"      \* history: the path was never staged

DiskVals == Contents \cup {Absent}
Data == Contents \cup {Null}

VARIABLES
    buffer,      \* this.buffer: Map in insertion order, Seq of [path, data]
    committed,   \* this.committed
    disk,        \* the real filesystem: file path -> content or Absent
    dirs,        \* the real filesystem: set of existing directories
    pc,          \* position of commit(): idle, loop, await, done, failed, rejected
    idx,         \* commit(): index of the next Map entry of the for loop
    added,       \* commit(): local list `added`
    removed,     \* commit(): local list `removed`
    sc,          \* commit(): whether the sourceControl argument is truthy
    hookCalls,   \* calls of sourceControl.addRemove, Seq of [added, removed]
    hookPending, \* the promise returned by addRemove is not yet settled
    writes,      \* paths physically written by fs.writeFileSync, in order
    deletes,     \* paths physically deleted by fs.unlinkSync, in order
    last,        \* the most recent event: the call made and its outcome
    hist,        \* history: per path the data of the last successful staging call
    disk0,       \* history: the disk when commit() started
    extSince,    \* history: the disk was changed externally since commit() started
    nExt,        \* number of external changes so far
    nRuns        \* history: number of times commit() passed its assertion

vars == <<buffer, committed, disk, dirs, pc, idx, added, removed, sc,
          hookCalls, hookPending, writes, deletes, last, hist, disk0,
          extSince, nExt, nRuns>>

instanceVars == <<buffer, committed>>
commitVars == <<pc, idx, added, removed, sc, hookCalls, hookPending,
                writes, deletes, disk0, extSince, nRuns>>
fsVars == <<disk, dirs>>

(***************************************************************************)
(* Helpers on the Map and on sequences.                                    *)
(***************************************************************************)
Range(s) == {s[i] : i \in 1..Len(s)}

Keys(buf) == {buf[i].path : i \in 1..Len(buf)}

\* Map.prototype.has
MapHas(buf, p) == p \in Keys(buf)

\* Map.prototype.get: the value of the key, undefined (here Null) otherwise
MapGet(buf, p) ==
    IF MapHas(buf, p)
    THEN buf[CHOOSE i \in 1..Len(buf) : buf[i].path = p].data
    ELSE Null

\* mutant of MapSet: a key already in the Map keeps its first value
MapSetKeepFirst(buf, p, d) ==
    IF MapHas(buf, p) THEN buf ELSE Append(buf, [path |-> p, data |-> d])

\* mutant of MapSet: the Map is replaced by one holding the new entry alone
MapSetReplaceAll(buf, p, d) == <<[path |-> p, data |-> d]>>

\* Map.prototype.set: an existing key keeps its position, a new key is appended
MapSet(buf, p, d) ==
    IF MapHas(buf, p)
    THEN [i \in 1..Len(buf) |->
            IF buf[i].path = p THEN [path |-> p, data |-> d] ELSE buf[i]]
    ELSE Append(buf, [path |-> p, data |-> d])

\* Boolean(x) of JavaScript on a value that is null or a string
ToBoolean(x) == x # Null /\ x # ""

(***************************************************************************)
(* The node fs module on the modelled disk.                                *)
(***************************************************************************)
fsExistsSync(dsk, p) == dsk[p] # Absent

\* fs.readFileSync: the content, or the error code it throws
fsReadOutcome(dsk, p) == IF dsk[p] = Absent THEN "ENOENT" ELSE "ok"

(***************************************************************************)
(* Events: the call (or environment step) that happened last, with the     *)
(* value it returned or the error it threw.  The steps commit() takes      *)
(* after its call are the events commit:entry (one loop iteration),        *)
(* commit:addRemove (the code after the loop) and commit:settle (the       *)
(* awaited promise settles).                                               *)
(***************************************************************************)
Ev(op, p, outcome) ==
    [op |-> op, path |-> p, outcome |-> outcome, data |-> Null, flag |-> FALSE,
     added |-> <<>>, removed |-> <<>>, changed |-> <<>>]

\* mutant of assertNotComitted: the invariant() is never raised
assertAlwaysPasses(c) == TRUE

\* _assertNotComitted: TRUE when the invariant() passes
assertNotComitted(c) == ~c

\* a call of the same thread cannot interleave the synchronous loop of commit()
Callable == pc # "loop"

\* the call throws the invariant violation of _assertNotComitted
Throws(op, p) ==
    /\ last' = Ev(op, p, "invariant")
    /\ UNCHANGED <<instanceVars, commitVars, fsVars, hist, nExt>>

(***************************************************************************)
(* Initial state: a new instance on an arbitrary disk.                     *)
(***************************************************************************)
Init ==
    /\ buffer = <<>>
    /\ committed = FALSE
    /\ disk \in [Paths -> DiskVals]
    /\ dirs \in SUBSET DirPaths
    /\ pc = "idle"
    /\ idx = 1
    /\ added = <<>>
    /\ removed = <<>>
    /\ sc = FALSE
    /\ hookCalls = <<>>
    /\ hookPending = FALSE
    /\ writes = <<>>
    /\ deletes = <<>>
    /\ last = Ev("new", "", "ok")
    /\ hist = [p \in Paths |-> NoCall]
    /\ disk0 = disk
    /\ extSince = FALSE
    /\ nExt = 0
    /\ nRuns = 0

(***************************************************************************)
(* Staging operations.                                                     *)
(***************************************************************************)
writeFileSync(p, d) ==
    /\ Callable
    /\ IF ~assertNotComitted(committed)
       THEN Throws("writeFileSync", p)
       ELSE /\ buffer' = MapSet(buffer, p, d)
            /\ hist' = [hist EXCEPT ![p] = d]
            /\ last' = [Ev("writeFileSync", p, "ok") EXCEPT !.data = d]
            /\ UNCHANGED <<committed, commitVars, fsVars, nExt>>

unlinkSync(p) ==
    /\ Callable
    /\ IF ~assertNotComitted(committed)
       THEN Throws("unlinkSync", p)
       ELSE /\ buffer' = MapSet(buffer, p, Null)
            /\ hist' = [hist EXCEPT ![p] = Null]
            /\ last' = Ev("unlinkSync", p, "ok")
            /\ UNCHANGED <<committed, commitVars, fsVars, nExt>>

mkdirSync(d) ==
    /\ Callable
    /\ IF ~assertNotComitted(committed)
       THEN Throws("mkdirSync", d)
       ELSE /\ IF d \in dirs
               THEN /\ last' = Ev("mkdirSync", d, "EEXIST")
                    /\ dirs' = dirs
               ELSE /\ last' = Ev("mkdirSync", d, "ok")
                    /\ dirs' = dirs \cup {d}
            /\ UNCHANGED <<instanceVars, commitVars, disk, hist, nExt>>

(***************************************************************************)
(* Query operations.                                                       *)
(***************************************************************************)
\* mutant of HasChangesResult: the size test is off by one
HasChangesOffByOne(buf) == Len(buf) > 1

\* the value hasChanges returns
HasChangesResult(buf) == Len(buf) > 0

hasChanges ==
    /\ Callable
    /\ IF ~assertNotComitted(committed)
       THEN Throws("hasChanges", "")
       ELSE /\ last' = [Ev("hasChanges", "", "ok") EXCEPT !.flag = HasChangesResult(buffer)]
            /\ UNCHANGED <<instanceVars, commitVars, fsVars, hist, nExt>>

\* mutant of AddedFiles: the existence test is not negated
RECURSIVE AddedFilesExisting(_, _)
AddedFilesExisting(buf, dsk) ==
    IF buf = <<>> THEN <<>>
    ELSE LET e == Head(buf)
         IN  (IF e.data # Null /\ fsExistsSync(dsk, e.path)
              THEN <<e.path>> ELSE <<>>) \o AddedFilesExisting(Tail(buf), dsk)

\* the list `added` of getAddedRemovedFiles, in Map order
RECURSIVE AddedFiles(_, _)
AddedFiles(buf, dsk) ==
    IF buf = <<>> THEN <<>>
    ELSE LET e == Head(buf)
         IN  (IF e.data # Null /\ ~fsExistsSync(dsk, e.path)
              THEN <<e.path>> ELSE <<>>) \o AddedFiles(Tail(buf), dsk)

\* the list `removed` of getAddedRemovedFiles, in Map order
RECURSIVE RemovedFiles(_)
RemovedFiles(buf) ==
    IF buf = <<>> THEN <<>>
    ELSE LET e == Head(buf)
         IN  (IF e.data = Null THEN <<e.path>> ELSE <<>>)
             \o RemovedFiles(Tail(buf))

getAddedRemovedFiles ==
    /\ Callable
    /\ IF ~assertNotComitted(committed)
       THEN Throws("getAddedRemovedFiles", "")
       ELSE /\ last' = [Ev("getAddedRemovedFiles", "", "ok") EXCEPT
                          !.added = AddedFiles(buffer, disk),
                          !.removed = RemovedFiles(buffer)]
            /\ UNCHANGED <<instanceVars, commitVars, fsVars, hist, nExt>>

\* the value existsSync returns
ExistsResult(buf, dsk, p) ==
    IF MapHas(buf, p) THEN ToBoolean(MapGet(buf, p)) ELSE fsExistsSync(dsk, p)

existsSync(p) ==
    /\ Callable
    /\ IF ~assertNotComitted(committed)
       THEN Throws("existsSync", p)
       ELSE /\ last' = [Ev("existsSync", p, "ok") EXCEPT
                          !.flag = ExistsResult(buffer, disk, p)]
            /\ UNCHANGED <<instanceVars, commitVars, fsVars, hist, nExt>>

readdirSync(d) ==
    /\ Callable
    /\ IF ~assertNotComitted(committed)
       THEN Throws("readdirSync", d)
       ELSE /\ last' = Ev("readdirSync", d, "notimplemented")
            /\ UNCHANGED <<instanceVars, commitVars, fsVars, hist, nExt>>

\* mutant of ReadResult: a staged delete falls through to the real filesystem
ReadResultFallsThrough(buf, dsk, p) ==
    IF MapHas(buf, p) /\ MapGet(buf, p) # Null
    THEN [Ev("readFileSync", p, "ok") EXCEPT !.data = MapGet(buf, p)]
    ELSE IF fsReadOutcome(dsk, p) = "ok"
         THEN [Ev("readFileSync", p, "ok") EXCEPT !.data = dsk[p]]
         ELSE Ev("readFileSync", p, fsReadOutcome(dsk, p))

\* the outcome of readFileSync: the event with the data returned or the error
ReadResult(buf, dsk, p) ==
    IF MapHas(buf, p)
    THEN LET data == MapGet(buf, p)
         IN  IF data # Null
             THEN [Ev("readFileSync", p, "ok") EXCEPT !.data = data]
             ELSE Ev("readFileSync", p, "deleted")
    ELSE IF fsReadOutcome(dsk, p) = "ok"
         THEN [Ev("readFileSync", p, "ok") EXCEPT !.data = dsk[p]]
         ELSE Ev("readFileSync", p, fsReadOutcome(dsk, p))

readFileSync(p) ==
    /\ Callable
    /\ IF ~assertNotComitted(committed)
       THEN Throws("readFileSync", p)
       ELSE /\ last' = ReadResult(buffer, disk, p)
            /\ UNCHANGED <<instanceVars, commitVars, fsVars, hist, nExt>>

statSync(p) ==
    /\ Callable
    /\ IF ~assertNotComitted(committed)
       THEN Throws("statSync", p)
       ELSE /\ last' = IF p \in dirs
                       THEN [Ev("statSync", p, "ok") EXCEPT !.flag = TRUE]
                       ELSE IF p \in Paths /\ fsExistsSync(disk, p)
                            THEN Ev("statSync", p, "ok")
                            ELSE Ev("statSync", p, "ENOENT")
            /\ UNCHANGED <<instanceVars, commitVars, fsVars, hist, nExt>>

\* mutant of ChangedJSON: the data is tested for truthiness, not for null
RECURSIVE ChangedJSONTruthy(_)
ChangedJSONTruthy(buf) ==
    IF buf = <<>> THEN <<>>
    ELSE LET e == Head(buf)
         IN  (IF ToBoolean(e.data) THEN <<e>> ELSE <<>>)
             \o ChangedJSONTruthy(Tail(buf))

\* the list `changed` of changedFilesToJSON, in Map order
RECURSIVE ChangedJSON(_)
ChangedJSON(buf) ==
    IF buf = <<>> THEN <<>>
    ELSE LET e == Head(buf)
         IN  (IF e.data = Null THEN <<>> ELSE <<e>>) \o ChangedJSON(Tail(buf))

\* the list `removed` of changedFilesToJSON, in Map order: objects {path}
RECURSIVE RemovedJSON(_)
RemovedJSON(buf) ==
    IF buf = <<>> THEN <<>>
    ELSE LET e == Head(buf)
         IN  (IF e.data = Null THEN <<[path |-> e.path]>> ELSE <<>>)
             \o RemovedJSON(Tail(buf))

changedFilesToJSON ==
    /\ Callable
    /\ IF ~assertNotComitted(committed)
       THEN Throws("changedFilesToJSON", "")
       ELSE /\ last' = [Ev("changedFilesToJSON", "", "ok") EXCEPT
                          !.changed = ChangedJSON(buffer),
                          !.removed = RemovedJSON(buffer)]
            /\ UNCHANGED <<instanceVars, commitVars, fsVars, hist, nExt>>

(***************************************************************************)
(* commit(): the assertion and the flag, then one step per Map entry of    *)
(* the for loop, then the call of the hook and the await of its promise.   *)
(***************************************************************************)
\* mutant of CommitEntry: a staged write is written only when the file is absent
CommitEntryOnlyNew(buf, st) ==
    LET path == buf[st.idx].path
        data == buf[st.idx].data
    IN  IF data = Null
        THEN IF fsExistsSync(st.disk, path)
             THEN [st EXCEPT !.removed = Append(@, path),
                             !.disk[path] = Absent,
                             !.deletes = Append(@, path),
                             !.idx = @ + 1]
             ELSE [st EXCEPT !.removed = Append(@, path),
                             !.err = "ENOENT"]
        ELSE IF ~fsExistsSync(st.disk, path)
             THEN [st EXCEPT !.added = Append(@, path),
                             !.disk[path] = data,
                             !.writes = Append(@, path),
                             !.idx = @ + 1]
             ELSE [st EXCEPT !.idx = @ + 1]

\* mutant of CommitEntry: a staged write is always written, without comparison
CommitEntryAlwaysWrite(buf, st) ==
    LET path == buf[st.idx].path
        data == buf[st.idx].data
    IN  IF data = Null
        THEN IF fsExistsSync(st.disk, path)
             THEN [st EXCEPT !.removed = Append(@, path),
                             !.disk[path] = Absent,
                             !.deletes = Append(@, path),
                             !.idx = @ + 1]
             ELSE [st EXCEPT !.removed = Append(@, path),
                             !.err = "ENOENT"]
        ELSE [st EXCEPT !.added = Append(@, path),
                        !.disk[path] = data,
                        !.writes = Append(@, path),
                        !.idx = @ + 1]

\* mutant of CommitEntry: an unchanged file ends the loop (break for continue)
CommitEntryBreak(buf, st) ==
    LET path == buf[st.idx].path
        data == buf[st.idx].data
    IN  IF data = Null
        THEN IF fsExistsSync(st.disk, path)
             THEN [st EXCEPT !.removed = Append(@, path),
                             !.disk[path] = Absent,
                             !.deletes = Append(@, path),
                             !.idx = @ + 1]
             ELSE [st EXCEPT !.removed = Append(@, path),
                             !.err = "ENOENT"]
        ELSE LET fileExisits == fsExistsSync(st.disk, path)
                 currentData == IF fileExisits THEN st.disk[path] ELSE Null
             IN  IF currentData # data
                 THEN [st EXCEPT !.added = Append(@, path),
                                 !.disk[path] = data,
                                 !.writes = Append(@, path),
                                 !.idx = @ + 1]
                 ELSE [st EXCEPT !.idx = Len(buf) + 1]

\* mutant of CommitEntry: the delete of a missing file is skipped silently
CommitEntryIgnoreMissing(buf, st) ==
    LET path == buf[st.idx].path
        data == buf[st.idx].data
    IN  IF data = Null
        THEN IF fsExistsSync(st.disk, path)
             THEN [st EXCEPT !.removed = Append(@, path),
                             !.disk[path] = Absent,
                             !.deletes = Append(@, path),
                             !.idx = @ + 1]
             ELSE [st EXCEPT !.removed = Append(@, path),
                             !.idx = @ + 1]
        ELSE LET fileExisits == fsExistsSync(st.disk, path)
                 currentData == IF fileExisits THEN st.disk[path] ELSE Null
             IN  IF currentData # data
                 THEN [st EXCEPT !.added = Append(@, path),
                                 !.disk[path] = data,
                                 !.writes = Append(@, path),
                                 !.idx = @ + 1]
                 ELSE [st EXCEPT !.idx = @ + 1]

\* one iteration of the for loop on entry st.idx of the Map.  st holds the
\* disk, the local lists and the log of physical operations; err is the
\* error code a physical operation threw, "" when none did.
CommitEntry(buf, st) ==
    LET path == buf[st.idx].path
        data == buf[st.idx].data
    IN  IF data = Null
        THEN IF fsExistsSync(st.disk, path)
             THEN [st EXCEPT !.removed = Append(@, path),
                             !.disk[path] = Absent,
                             !.deletes = Append(@, path),
                             !.idx = @ + 1]
             ELSE [st EXCEPT !.removed = Append(@, path),
                             !.err = "ENOENT"]
        ELSE LET fileExisits == fsExistsSync(st.disk, path)
                 currentData == IF fileExisits THEN st.disk[path] ELSE Null
             IN  IF currentData # data
                 THEN [st EXCEPT !.added = Append(@, path),
                                 !.disk[path] = data,
                                 !.writes = Append(@, path),
                                 !.idx = @ + 1]
                 ELSE [st EXCEPT !.idx = @ + 1]

\* the state the loop works on
LoopState ==
    [disk |-> disk, added |-> added, removed |-> removed, writes |-> writes,
     deletes |-> deletes, idx |-> idx, err |-> ""]

\* the whole for loop of commit() on the Map buf, from the loop state st
RECURSIVE CommitAll(_, _)
CommitAll(buf, st) ==
    IF st.err # "" \/ st.idx > Len(buf)
    THEN st
    ELSE CommitAll(buf, CommitEntry(buf, st))

\* mutant of HookInvocations: addRemove is called whatever the argument is
HookAlwaysInvoked(s, a, r) == <<[added |-> a, removed |-> r]>>

\* the calls of sourceControl.addRemove made after the loop
HookInvocations(s, a, r) ==
    IF s THEN <<[added |-> a, removed |-> r]>> ELSE <<>>

\* mutant of commit: the committed flag is not set
commitNoFlag(sourceControl) ==
    /\ Callable
    /\ IF ~assertNotComitted(committed)
       THEN Throws("commit", "")
       ELSE /\ pc' = "loop"
            /\ idx' = 1
            /\ added' = <<>>
            /\ removed' = <<>>
            /\ sc' = sourceControl
            /\ disk0' = disk
            /\ extSince' = FALSE
            /\ nRuns' = nRuns + 1
            /\ last' = Ev("commit", "", "started")
            /\ UNCHANGED <<buffer, committed, fsVars, hookCalls, hookPending,
                           writes, deletes, hist, nExt>>

commit(sourceControl) ==
    /\ Callable
    /\ IF ~assertNotComitted(committed)
       THEN Throws("commit", "")
       ELSE /\ committed' = TRUE
            /\ pc' = "loop"
            /\ idx' = 1
            /\ added' = <<>>
            /\ removed' = <<>>
            /\ sc' = sourceControl
            /\ disk0' = disk
            /\ extSince' = FALSE
            /\ nRuns' = nRuns + 1
            /\ last' = Ev("commit", "", "started")
            /\ UNCHANGED <<buffer, fsVars, hookCalls, hookPending, writes,
                           deletes, hist, nExt>>

CommitStep ==
    /\ pc = "loop"
    /\ idx <= Len(buffer)
    /\ LET r == CommitEntry(buffer, LoopState)
       IN  /\ disk' = r.disk
           /\ added' = r.added
           /\ removed' = r.removed
           /\ writes' = r.writes
           /\ deletes' = r.deletes
           /\ idx' = r.idx
           /\ pc' = IF r.err = "" THEN "loop" ELSE "failed"
           /\ last' = Ev("commit:entry", buffer[idx].path,
                         IF r.err = "" THEN "ok" ELSE r.err)
    /\ UNCHANGED <<instanceVars, dirs, sc, hookCalls, hookPending, hist,
                   disk0, extSince, nExt, nRuns>>

CommitLoopEnd ==
    /\ pc = "loop"
    /\ idx > Len(buffer)
    /\ LET calls == HookInvocations(sc, added, removed)
       IN  /\ hookCalls' = hookCalls \o calls
           /\ hookPending' = (calls # <<>>)
           /\ pc' = IF calls # <<>> THEN "await" ELSE "done"
           /\ last' = Ev("commit:addRemove", "",
                         IF calls # <<>> THEN "awaiting" ELSE "skipped")
    /\ UNCHANGED <<instanceVars, fsVars, idx, added, removed, sc, writes,
                   deletes, hist, disk0, extSince, nExt, nRuns>>

\* the promise of addRemove settles: commit() resolves or rejects with it
HookSettle(ok) ==
    /\ pc = "await"
    /\ hookPending
    /\ hookPending' = FALSE
    /\ pc' = IF ok THEN "done" ELSE "rejected"
    /\ last' = Ev("commit:settle", "", IF ok THEN "ok" ELSE "rejected")
    /\ UNCHANGED <<instanceVars, fsVars, idx, added, removed, sc, hookCalls,
                   writes, deletes, hist, disk0, extSince, nExt, nRuns>>

(***************************************************************************)
(* Environment: another process changes a file of the shared disk.  The    *)
(* instance reads the disk only up to the end of the loop of commit(), so  *)
(* later changes are not modelled.                                         *)
(***************************************************************************)
ExternalChange(p, v) ==
    /\ nExt < MaxExt
    /\ pc \in {"idle", "loop"}
    /\ v # disk[p]
    /\ disk' = [disk EXCEPT ![p] = v]
    /\ nExt' = nExt + 1
    /\ extSince' = (extSince \/ pc # "idle")
    /\ last' = Ev("external", p, "ok")
    /\ UNCHANGED <<instanceVars, dirs, pc, idx, added, removed, sc, hookCalls,
                   hookPending, writes, deletes, hist, disk0, nRuns>>

Next ==
    \/ \E p \in Paths, d \in Contents : writeFileSync(p, d)
    \/ \E p \in Paths : unlinkSync(p)
    \/ \E d \in DirPaths : mkdirSync(d)
    \/ hasChanges
    \/ getAddedRemovedFiles
    \/ \E p \in Paths : existsSync(p)
    \/ \E d \in DirPaths : readdirSync(d)
    \/ \E p \in Paths : readFileSync(p)
    \/ \E p \in Paths \cup DirPaths : statSync(p)
    \/ changedFilesToJSON
    \/ \E s \in BOOLEAN : commit(s)
    \/ CommitStep
    \/ CommitLoopEnd
    \/ \E ok \in BOOLEAN : HookSettle(ok)
    \/ \E p \in Paths, v \in DiskVals : ExternalChange(p, v)

Spec == Init /\ [][Next]_vars

(***************************************************************************)
(* Properties.                                                             *)
(***************************************************************************)
\* the methods of the class, as event names
ApiOps ==
    {"readFileSync", "writeFileSync", "unlinkSync", "existsSync", "hasChanges",
     "getAddedRemovedFiles", "changedFilesToJSON", "mkdirSync", "statSync",
     "readdirSync", "commit"}

\* the loop of commit() has run to its end without a physical failure
LoopFinished == pc \in {"await", "done", "rejected"}

\* C1: once commit() has been called, every later call of any method fails
\* with the invariant violation and changes neither the staged buffer nor
\* the disk, and the committed flag is never reset.
C1_NoOperationAfterCommit ==
    [][committed =>
         /\ committed'
         /\ (last'.op \in ApiOps =>
               /\ last'.outcome = "invariant"
               /\ UNCHANGED <<buffer, hist, disk, dirs>>)]_vars

\* C1 witness: a write, made after a commit that has completed, has failed
C1_Witness ==
    /\ committed
    /\ pc = "done"
    /\ last.op = "writeFileSync"
    /\ last.outcome = "invariant"

\* C2: a second commit() fails with the invariant violation and performs no
\* physical write, no physical delete and no call of the hook; the loop of
\* commit() runs at most once per instance, the hook is called at most once
\* and no path is physically written or deleted twice.
C2_SecondCommitFails ==
    /\ [](/\ nRuns <= 1
          /\ Len(hookCalls) <= 1
          /\ Cardinality(Range(writes)) = Len(writes)
          /\ Cardinality(Range(deletes)) = Len(deletes))
    /\ [][(committed /\ last'.op = "commit") =>
            /\ last'.outcome = "invariant"
            /\ UNCHANGED <<disk, dirs, writes, deletes, hookCalls,
                           hookPending, pc, idx, nRuns>>]_vars

\* C2 witness: a second commit() has failed after a first one that wrote,
\* deleted and called the hook
C2_Witness ==
    /\ last.op = "commit"
    /\ last.outcome = "invariant"
    /\ pc = "done"
    /\ writes # <<>>
    /\ deletes # <<>>
    /\ Len(hookCalls) = 1

\* C3: before commit, readFileSync(p) returns the content of the most recent
\* writeFileSync(p, c) when the last staging call on p was a write, whatever
\* is on disk; when p was never staged it returns what fs.readFileSync gives
\* for the current disk (the content, or ENOENT for an absent file).
C3_ReadSeesStagedWriteElseDisk ==
    (~committed /\ last.op = "readFileSync") =>
        LET p == last.path
        IN  /\ hist[p] \in Contents =>
                 (last.outcome = "ok" /\ last.data = hist[p])
            /\ hist[p] = NoCall =>
                 IF disk[p] = Absent
                 THEN last.outcome = "ENOENT"
                 ELSE last.outcome = "ok" /\ last.data = disk[p]

\* C3 witness: a read has returned a staged content that differs from the
\* disk, while the other path has no staged entry
C3_Witness ==
    /\ ~committed
    /\ last.op = "readFileSync"
    /\ last.outcome = "ok"
    /\ hist[last.path] \in Contents
    /\ last.data = hist[last.path]
    /\ disk[last.path] # hist[last.path]
    /\ \E q \in Paths : q # last.path /\ hist[q] = NoCall

\* C4: before commit, existsSync(p) is decided by the staged state alone for
\* a staged path (true for a pending write of any content, "" included,
\* false for a pending delete) and by the disk for an unstaged path.
C4_ExistsFollowsReadRule ==
    (~committed /\ last.op = "existsSync") =>
        LET p == last.path
        IN  last.flag = (IF hist[p] # NoCall
                         THEN hist[p] # Null
                         ELSE disk[p] # Absent)

\* C5: after a commit() whose loop ran to its end (no other process having
\* changed the disk meanwhile), every path with a pending write has the
\* staged content on disk, every path with a pending delete is absent, and
\* every unstaged path is as it was when commit() started.
C5_CommitAppliesStagedState ==
    (LoopFinished /\ ~extSince) =>
        \A p \in Paths :
            /\ hist[p] \in Contents => disk[p] = hist[p]
            /\ hist[p] = Null => disk[p] = Absent
            /\ hist[p] = NoCall => disk[p] = disk0[p]

\* C5 witness: a completed commit has overwritten an existing file with a
\* different content and has left an unstaged existing file alone
C5_Witness ==
    /\ pc = "done"
    /\ ~extSince
    /\ \E p, q \in Paths :
          /\ hist[p] \in Contents
          /\ disk0[p] \notin {Absent, hist[p]}
          /\ disk[p] = hist[p]
          /\ hist[q] = NoCall
          /\ disk[q] # Absent

\* C6: in commit(), the iteration on a staged write physically writes the
\* path if and only if the file is absent or its content, on the disk as it
\* is at that iteration, differs from the staged content; a physical write
\* stores the staged content, and nothing else ever writes.
C6_WriteIffFreshContentDiffers ==
    [][/\ (last'.op = "commit:entry" /\ buffer[idx].data # Null) =>
            LET p == buffer[idx].path
                d == buffer[idx].data
            IN  /\ (writes' # writes) <=> (disk[p] = Absent \/ disk[p] # d)
                /\ writes' # writes =>
                      (writes' = Append(writes, p) /\ disk' = [disk EXCEPT ![p] = d])
                /\ writes' = writes => disk' = disk
       /\ writes' # writes => last'.op = "commit:entry"]_vars

\* C6 witness: a commit has skipped the write of a path whose content was
\* equal on disk and has written a path whose content was equal to the
\* staged one when commit() started but was changed before its iteration
C6_Witness ==
    /\ pc = "done"
    /\ \E p, q \in Paths :
          /\ hist[p] \in Contents
          /\ p \notin Range(writes)
          /\ disk0[p] = hist[p]
          /\ hist[q] \in Contents
          /\ q \in Range(writes)
          /\ disk0[q] = hist[q]

\* C7: the lists commit() passes to the hook are added = exactly the paths
\* with a pending write that did not exist on disk before the commit, and
\* removed = exactly the paths with a pending delete; no path is in both.
C7_HookListsAreNewAndDeletedPaths ==
    (hookCalls # <<>> /\ ~extSince) =>
        LET c == hookCalls[1]
        IN  /\ Range(c.added) =
                  {p \in Paths : hist[p] \in Contents /\ disk0[p] = Absent}
            /\ Range(c.removed) = {p \in Paths : hist[p] = Null}
            /\ Range(c.added) \cap Range(c.removed) = {}

\* C8 as claimed: whenever commit() was given a hook and has ended, the hook
\* was called exactly once; it is called only after the loop, commit() does
\* not complete while the promise is pending, and without a hook there is
\* no call.
C8_HookExactlyOncePerCommit ==
    /\ (sc /\ pc \in {"done", "failed", "rejected"}) => Len(hookCalls) = 1
    /\ hookCalls # <<>> => idx > Len(buffer)
    /\ pc = "done" => ~hookPending
    /\ ~sc => hookCalls = <<>>

\* C8 (amended): when commit() was given a hook and its loop ran to its end,
\* the hook is called exactly once, by the step after the loop, and after
\* that call nothing is written or deleted; commit() does not complete while
\* the promise is pending; when a physical operation throws, or no hook was
\* given, the hook is never called; no other operation calls the hook.
C8_HookOnceAfterLoop ==
    /\ [](/\ (sc /\ LoopFinished) => Len(hookCalls) = 1
          /\ pc \in {"idle", "loop", "failed"} => hookCalls = <<>>
          /\ hookCalls # <<>> => idx > Len(buffer)
          /\ pc = "done" => ~hookPending
          /\ ~sc => hookCalls = <<>>)
    /\ [][/\ hookCalls' # hookCalls =>
               (last'.op = "commit:addRemove" /\ pc = "loop" /\ idx > Len(buffer))
          /\ hookCalls # <<>> =>
               (writes' = writes /\ deletes' = deletes)]_vars

\* C8 witness: a commit with a hook has written, deleted, called the hook
\* once and completed
C8_Witness ==
    /\ pc = "done"
    /\ sc
    /\ Len(hookCalls) = 1
    /\ writes # <<>>
    /\ deletes # <<>>

\* C9: before commit() is called, no operation of the instance changes the
\* real filesystem.
C9_NoDiskChangeBeforeCommit ==
    [][(~committed /\ last'.op \in ApiOps \ {"commit"}) =>
          (disk' = disk /\ dirs' = dirs)]_vars

\* the orders in which the entries of a Map could have been inserted
Perms(buf) ==
    {t \in [1..Len(buf) -> Range(buf)] : Range(t) = Range(buf)}

\* the loop of commit() run from the disk dsk
FreshLoopState(dsk) ==
    [disk |-> dsk, added |-> <<>>, removed |-> <<>>, writes |-> <<>>,
     deletes |-> <<>>, idx |-> 1, err |-> ""]

\* C10 as claimed: an instance holding the same staged mapping in any other
\* staging order, committed against the same disk, leaves the same disk and
\* collects the same added and removed sets as this commit, however it ends.
C10_CommitIndependentOfOrder ==
    (pc \in {"await", "done", "rejected", "failed"} /\ ~extSince) =>
        \A t \in Perms(buffer) :
            LET r == CommitAll(t, FreshLoopState(disk0))
            IN  /\ r.disk = disk
                /\ Range(r.added) = Range(added)
                /\ Range(r.removed) = Range(removed)

\* C10 (amended): when the loop of commit() runs to its end (no physical
\* operation throws), an instance holding the same staged mapping in any
\* staging order, committed against the same disk, also runs to the end,
\* leaves the same disk and passes the same added and removed sets.
C10_CompletedCommitIndependentOfOrder ==
    (LoopFinished /\ ~extSince) =>
        \A t \in Perms(buffer) :
            LET r == CommitAll(t, FreshLoopState(disk0))
                calls == HookInvocations(sc, r.added, r.removed)
            IN  /\ r.err = ""
                /\ r.disk = disk
                /\ Range(r.added) = Range(added)
                /\ Range(r.removed) = Range(removed)
                /\ Len(calls) = Len(hookCalls)
                /\ calls # <<>> =>
                      /\ Range(calls[1].added) = Range(hookCalls[1].added)
                      /\ Range(calls[1].removed) = Range(hookCalls[1].removed)

\* C10 witness: a commit of two staged paths, one written and one deleted,
\* has completed and called the hook
C10_Witness ==
    /\ pc = "done"
    /\ ~extSince
    /\ Len(buffer) = 2
    /\ Len(hookCalls) = 1
    /\ hookCalls[1].added # <<>>
    /\ hookCalls[1].removed # <<>>

\* the staged history is a single write, of a path that is not on the disk dsk
OnlyNewFileStaged(p, dsk) ==
    /\ hist[p] \in Contents
    /\ \A q \in Paths \ {p} : hist[q] = NoCall
    /\ dsk[p] = Absent

\* C11 as claimed: after writeFileSync(p, X) on a path absent from disk and
\* a commit() that completed, a call of getAddedRemovedFiles() returns
\* added = [p] and removed = [].
C11_AddedReportedAfterCommit ==
    \A p \in Paths :
        (/\ pc = "done"
         /\ OnlyNewFileStaged(p, disk0)
         /\ last.op = "getAddedRemovedFiles") =>
            /\ last.outcome = "ok"
            /\ last.added = <<p>>
            /\ last.removed = <<>>

\* C11 (amended): for a path p absent from disk, after writeFileSync(p, X)
\* a call of getAddedRemovedFiles() made before commit() returns
\* added = [p] and removed = []; the commit leaves p = X on disk and passes
\* ([p], []) to a hook; a call of getAddedRemovedFiles() made after the
\* commit throws the invariant violation and returns no lists.
C11_AddedReportedBeforeCommit ==
    \A p \in Paths :
        /\ (~committed /\ OnlyNewFileStaged(p, disk)
                /\ last.op = "getAddedRemovedFiles") =>
              (last.outcome = "ok" /\ last.added = <<p>> /\ last.removed = <<>>)
        /\ (LoopFinished /\ ~extSince /\ OnlyNewFileStaged(p, disk0)) =>
              /\ disk[p] = hist[p]
              /\ sc => hookCalls = <<[added |-> <<p>>, removed |-> <<>>]>>
        /\ (committed /\ last.op = "getAddedRemovedFiles") =>
              (last.outcome = "invariant" /\ last.added = <<>> /\ last.removed = <<>>)

\* C11 witness: getAddedRemovedFiles() was called after a completed commit
\* that created the single staged file, and has thrown
C11_Witness ==
    /\ pc = "done"
    /\ ~extSince
    /\ \E p \in Paths : OnlyNewFileStaged(p, disk0) /\ disk[p] = "X"
    /\ last.op = "getAddedRemovedFiles"
    /\ last.outcome = "invariant"

\* C12: before commit, hasChanges() returns true if and only if a path was
\* staged by writeFileSync or unlinkSync since the instance was created,
\* whatever is on disk; when every staged entry is a write equal to the disk
\* content, the later commit writes nothing and collects no added or removed
\* path.
C12_HasChangesIffStaged ==
    /\ (~committed /\ last.op = "hasChanges") =>
          /\ last.outcome = "ok"
          /\ last.flag = (\E p \in Paths : hist[p] # NoCall)
    /\ (LoopFinished /\ ~extSince
            /\ \A p \in Paths : hist[p] \in {NoCall, disk0[p]}) =>
          (writes = <<>> /\ deletes = <<>> /\ added = <<>> /\ removed = <<>>)

\* C12 witness: hasChanges() has returned true although every staged path
\* is a write of the content the disk already holds
C12_Witness ==
    /\ ~committed
    /\ last.op = "hasChanges"
    /\ last.flag
    /\ \E p \in Paths : hist[p] # NoCall
    /\ \A p \in Paths : hist[p] \in {NoCall, disk[p]}

\* C13: before commit, readFileSync(p) on a path whose last staging call was
\* unlinkSync(p) throws (the invariant "trying to read deleted file") and
\* returns no content, whatever is on disk; a read never changes the staged
\* buffer, the committed flag or the disk.
C13_ReadOfPendingDeleteFails ==
    /\ []((~committed /\ last.op = "readFileSync" /\ hist[last.path] = Null) =>
            (last.outcome = "deleted" /\ last.data = Null))
    /\ [][last'.op = "readFileSync" =>
            UNCHANGED <<buffer, hist, committed, disk, dirs>>]_vars

\* C13 witness: the read of a path staged as deleted has thrown while the
\* file is still on disk
C13_Witness ==
    /\ ~committed
    /\ last.op = "readFileSync"
    /\ last.outcome = "deleted"
    /\ hist[last.path] = Null
    /\ disk[last.path] = "X"

\* the on-disk state a staged entry asks for
StagedDiskValue(e) == IF e.data = Null THEN Absent ELSE e.data

\* C14: when the physical delete of a staged path that is absent from disk
\* throws in commit(), commit() ends in that error without calling the hook;
\* the entries before the failing one in Map order have been applied, the
\* failing one and the later ones have not; the instance stays committed and
\* failed, so that a retry of commit() or any other call throws.
C14_FailedCommitIsPartialAndFinal ==
    /\ [](pc = "failed" =>
            /\ committed
            /\ hookCalls = <<>>
            /\ ~hookPending
            /\ idx \in 1..Len(buffer)
            /\ buffer[idx].data = Null
            /\ disk[buffer[idx].path] = Absent
            /\ ~extSince =>
                 \A i \in 1..Len(buffer) :
                    /\ i < idx => disk[buffer[i].path] = StagedDiskValue(buffer[i])
                    /\ i >= idx => disk[buffer[i].path] = disk0[buffer[i].path])
    /\ [][/\ (last'.op = "commit:entry" /\ buffer[idx].data = Null
                 /\ disk[buffer[idx].path] = Absent) =>
               (/\ pc' = "failed"
                /\ last'.outcome = "ENOENT"
                /\ UNCHANGED <<disk, writes, deletes, hookCalls>>)
          /\ pc = "failed" =>
               (/\ pc' = "failed"
                /\ UNCHANGED <<committed, buffer, disk, writes, deletes, hookCalls>>
                /\ last'.op \in ApiOps => last'.outcome = "invariant")]_vars

\* C14 witness: a commit with a hook has written its first entry, has failed
\* on the delete of its second entry, and a retry of commit() has thrown
C14_Witness ==
    /\ pc = "failed"
    /\ sc
    /\ ~extSince
    /\ idx = 2
    /\ writes = <<buffer[1].path>>
    /\ disk0[buffer[1].path] # disk[buffer[1].path]
    /\ last.op = "commit"
    /\ last.outcome = "invariant"

\* C15: commit() sets the committed flag before its first physical effect
\* and before it awaits the hook: whenever a commit has started, or anything
\* was written, deleted or passed to the hook, the flag is set; every call
\* made while commit() awaits addRemove throws and leaves the commit where
\* it is; the Map is never modified once a commit has started; the hook is
\* called at most once per instance.
C15_CommittedBeforeEffects ==
    /\ [](/\ pc # "idle" => committed
          /\ (writes # <<>> \/ deletes # <<>> \/ hookCalls # <<>>) => committed
          /\ hookPending => pc = "await"
          /\ Len(hookCalls) <= 1)
    /\ [][/\ pc # "idle" => buffer' = buffer
          /\ (pc = "await" /\ last'.op \in ApiOps) =>
               (/\ last'.outcome = "invariant"
                /\ UNCHANGED <<pc, idx, added, removed, hookCalls, hookPending,
                               writes, deletes, disk, dirs>>)]_vars

\* C15 witness: a second commit() was issued while the first awaits the
\* hook, and has thrown
C15_Witness ==
    /\ pc = "await"
    /\ hookPending
    /\ Len(hookCalls) = 1
    /\ last.op = "commit"
    /\ last.outcome = "invariant"

\* C16: each path has at most one Map entry, present exactly when the path
\* was staged, and its value is the one of the last staging call on that
\* path alone; a staged path never loses its entry; commit() writes only
\* paths whose last call was a write and deletes only paths whose last call
\* was an unlink, each at most once.
C16_LastStagingCallWins ==
    /\ [](/\ Cardinality(Keys(buffer)) = Len(buffer)
          /\ \A p \in Paths :
                /\ MapHas(buffer, p) <=> hist[p] # NoCall
                /\ MapHas(buffer, p) => MapGet(buffer, p) = hist[p]
          /\ Range(writes) \subseteq {p \in Paths : hist[p] \in Contents}
          /\ Range(deletes) \subseteq {p \in Paths : hist[p] = Null}
          /\ Cardinality(Range(writes) \cup Range(deletes))
                = Len(writes) + Len(deletes))
    /\ [][/\ \A p \in Paths : MapHas(buffer, p) => MapHas(buffer', p)
          /\ (last'.op = "writeFileSync" /\ last'.outcome = "ok") =>
                MapGet(buffer', last'.path) = last'.data
          /\ (last'.op = "unlinkSync" /\ last'.outcome = "ok") =>
                MapGet(buffer', last'.path) = Null]_vars

\* C16 witness: a completed commit has written one staged path and deleted
\* the other, each according to its single Map entry
C16_Witness ==
    /\ pc = "done"
    /\ Len(buffer) = 2
    /\ Len(writes) = 1
    /\ Len(deletes) = 1
    /\ hist[writes[1]] = "X"
    /\ hist[deletes[1]] = Null

\* C17: when no other process changes the disk during the commit, the lists
\* getAddedRemovedFiles() returns for the staged state and the disk at the
\* start of commit() are the lists commit() passes to the hook.
C17_HookListsEqualAddedRemovedFiles ==
    (hookCalls # <<>> /\ ~extSince) =>
        /\ hookCalls[1].added = AddedFiles(buffer, disk0)
        /\ hookCalls[1].removed = RemovedFiles(buffer)

\* the second run: the loop of commit() of a fresh instance that staged the
\* same entries, in the order t, on the disk dsk
SecondRun(t, dsk) == CommitAll(t, FreshLoopState(dsk))

\* C18: after a commit of a staged mapping of pending writes only (no other
\* process having changed the disk), a fresh instance that stages the same
\* mapping, in any order, and commits it performs no physical write or
\* delete, passes empty added and removed lists to the hook and leaves the
\* disk as it is.
C18_SecondCommitIsNoop ==
    (LoopFinished /\ ~extSince /\ \A p \in Paths : hist[p] # Null) =>
        \A t \in Perms(buffer) :
            LET r == SecondRun(t, disk)
            IN  /\ r.err = ""
                /\ r.idx = Len(buffer) + 1
                /\ r.writes = <<>>
                /\ r.deletes = <<>>
                /\ r.disk = disk
                /\ HookInvocations(TRUE, r.added, r.removed)
                      = <<[added |-> <<>>, removed |-> <<>>]>>

\* C18 witness: a first commit has written both staged paths, one new and
\* one with a changed content
C18_Witness ==
    /\ pc = "done"
    /\ ~extSince
    /\ Len(buffer) = 2
    /\ Len(writes) = 2
    /\ \A p \in Paths : hist[p] \in Contents
    /\ \E p, q \in Paths : disk0[p] = Absent /\ disk0[q] \notin {Absent, hist[q]}

\* C19: before commit, changedFilesToJSON() partitions the staged paths:
\* changed holds exactly the paths whose last staging call was a write, each
\* once and with the staged content, removed holds exactly the paths whose
\* last staging call was an unlink, each once; the disk plays no part.
C19_ChangedFilesPartition ==
    (~committed /\ last.op = "changedFilesToJSON") =>
        /\ last.outcome = "ok"
        /\ Range(last.changed) =
              {[path |-> p, data |-> hist[p]] : p \in {q \in Paths : hist[q] \in Contents}}
        /\ Range(last.removed) =
              {[path |-> p] : p \in {q \in Paths : hist[q] = Null}}
        /\ Len(last.changed) = Cardinality(Range(last.changed))
        /\ Len(last.removed) = Cardinality(Range(last.removed))
        /\ Len(last.changed) + Len(last.removed)
              = Cardinality({p \in Paths : hist[p] # NoCall})

\* C19 witness: the result lists as changed a write of "" equal to the disk
\* content and as removed a path that is not on disk
C19_Witness ==
    /\ ~committed
    /\ last.op = "changedFilesToJSON"
    /\ Len(last.changed) = 1
    /\ Len(last.removed) = 1
    /\ last.changed[1].data = ""
    /\ disk[last.changed[1].path] = ""
    /\ disk[last.removed[1].path] = Absent

\* the methods that only query
QueryOps ==
    {"hasChanges", "getAddedRemovedFiles", "existsSync", "readFileSync",
     "statSync", "changedFilesToJSON"}

\* C20: writeFileSync(p, c) and unlinkSync(p) change only the Map entry of p
\* and leave the entries of the other paths, their order and the committed
\* flag unchanged; the query methods leave the Map and the flag unchanged;
\* the flag is only ever changed by a call of commit(), which sets it.
C20_FrameOfStagingAndQueries ==
    [][/\ last'.op \in {"writeFileSync", "unlinkSync"} =>
            /\ committed' = committed
            /\ \A q \in Paths \ {last'.path} :
                  /\ MapHas(buffer', q) = MapHas(buffer, q)
                  /\ MapGet(buffer', q) = MapGet(buffer, q)
            /\ \A i \in 1..Len(buffer) : buffer'[i].path = buffer[i].path
       /\ last'.op \in QueryOps =>
            (buffer' = buffer /\ committed' = committed)
       /\ committed' # committed =>
            (last'.op = "commit" /\ last'.outcome = "started" /\ committed')]_vars

\* C20 witness: an unlink of one path was staged while the other path keeps
\* its pending write
C20_Witness ==
    /\ ~committed
    /\ last.op = "unlinkSync"
    /\ last.outcome = "ok"
    /\ Len(buffer) = 2
    /\ buffer[1].path # last.path
    /\ buffer[1].data = "X"
    /\ buffer[2].data = Null

====
